---- MODULE Spec2Model ----
(***************************************************************************)
(* Model of roboflow/models/inference.py: the InferenceModel client.       *)
(* One client instance talks to a remote service whose answers are chosen  *)
(* nondeterministically.  Every handler is cut at its HTTP requests: a     *)
(* step of the model is the code between two requests, the request         *)
(* included.  `http' records the requests of the call in progress (or of   *)
(* the last finished call) together with the answer each one received.     *)
(***************************************************************************)
EXTENDS Integers, Sequences, FiniteSets, TLC

\* ------------------------------------------------------------- bounds
MaxAttempts == 3          \* iterations of the blocking poll that are explored
MaxFps == 6               \* largest fps argument that is explored

\* ---------------------------------------------------- strings as text
\* References are sequences of characters, so that prefixes and schemes
\* are computed the way the code computes them.
Http == <<"h", "t", "t", "p", ":", "/", "/">>
Https == <<"h", "t", "t", "p", "s", ":", "/", "/">>
UpperHttp == <<"H", "T", "T", "P", ":", "/", "/">>

StartsWith(s, p) ==
    /\ Len(s) >= Len(p)
    /\ SubSeq(s, 1, Len(p)) = p

\* str.startswith(("http://", "https://")) of line 199
IsHttpPrefix(s) == StartsWith(s, Http) \/ StartsWith(s, Https)

\* ------------------------------------------------------ program constants
SUPPORTED_ROBOFLOW_MODELS == {"batch-video"}

SUPPORTED_ADDITIONAL_MODELS ==
    [clip |-> [model_id |-> "clip", model_version |-> "1",
               inference_type |-> "clip-embed-image"],
     gaze |-> [model_id |-> "gaze", model_version |-> "1",
               inference_type |-> "gaze-detection"]]

FpsLimit == 5

\* the value sent as infer_fps in the job submission
InferFps == 5

\* ------------------------------------------------------------ the world
ApiKey == "key"
DatasetId == <<"d", "s">>
Version == <<"1">>

\* model identifiers with one to four segments
Id1 == DatasetId
Id2 == DatasetId \o <<"/">> \o Version
Id3 == <<"w", "/">> \o Id2
Id4 == <<"w", "/", "d", "2", "/", "2", "/", "x">>
VersionIds == {Id1, Id2, Id3, Id4}

\* str.rsplit("/") without a limit: the text between the separators
RECURSIVE Split(_)
Split(s) ==
    IF \E i \in 1..Len(s) : s[i] = "/"
    THEN LET i == CHOOSE k \in 1..Len(s) :
                    /\ s[k] = "/"
                    /\ \A m \in 1..(k - 1) : s[m] # "/"
         IN  <<SubSeq(s, 1, i - 1)>> \o Split(SubSeq(s, i + 1, Len(s)))
    ELSE <<s>>

\* lines 55-57: version_info[1] and version_info[2] must exist
ConstructionOk(version_id) == Len(Split(version_id)) >= 3

NoAttr == "<unset>"          \* an attribute that __init__ never assigned
None == "None"
Unbound == "<unbound>"       \* a local variable that was never assigned
NoUrl == <<>>                \* a URL local that was never assigned

JobIds == {"j1", "j2"}
ModelClasses == {"ObjectDetectionModel", "ClassificationModel",
                 "InstanceSegmentationModel", "InferenceModel"}

LocalVideo == <<"v", ".", "m", "p", "4">>
HostedVideo == Https \o <<"v">>
PlainHostedVideo == Http \o <<"v">>
UpperVideo == UpperHttp \o <<"v">>
VideoRefs == {LocalVideo, HostedVideo, PlainHostedVideo, UpperVideo}

Out1 == Https \o <<"o", "1">>
Out2 == Https \o <<"o", "2">>

Signed1 == Https \o <<"s", "1">>
Signed2 == Https \o <<"s", "2">>
SignedUrls == {Signed1, Signed2}

ModelLists == {<<>>, <<"clip">>, <<"gaze", "clip">>, <<"clip", "unknown">>}
PredictionTypes == {"batch-video", "image"}

EmptyDict == "{}"
Payloads == {EmptyDict, "frames_a", "frames_b"}

\* an exception: its class, its message and the exception it was raised from
\* (about: the value the message is formatted with)
Err(t, m, c, a) == [type |-> t, msg |-> m, cause |-> c, about |-> a]
NoErr == Err("", "", "", "")

NoRet == [kind |-> "none", err |-> NoErr, val |-> <<>>]
Returned(v) == [kind |-> "return", err |-> NoErr, val |-> v]
Raised(e) == [kind |-> "raise", err |-> e, val |-> <<>>]

\* a transport failure of the HTTP library
Transport == "ConnectionError"

VARIABLES
    id,             \* self.id
    dataset_id,     \* self.dataset_id, NoUrl when __init__ failed before it
    version,        \* self.version, NoUrl when __init__ failed before it
    model_class,    \* self.__class__.__name__
    job_id,         \* self.job_id, NoAttr until predict_video assigns it
    type,           \* self.type, NoAttr until predict_video assigns it
    op,             \* the call in progress, or the last finished call
    pc,             \* the position inside the call
    args,           \* the arguments of the call
    signed_url,     \* local of predict_video
    headers,        \* local of predict_video
    loc_job,        \* local job_id of the polling methods
    output_url,     \* local output_signed_url of poll_for_video_results
    built,          \* what __get_image_params returned to predict
    response,       \* local response of poll_until_video_results
    attempts,       \* local attempts of poll_until_video_results
    polls,          \* single polls made by the blocking poll in progress
    sleeps,         \* time.sleep(60) calls made by the blocking poll
    http,           \* the requests of the call, in order, with their answers
    job_before,     \* self.job_id as it was when the call began
    last_job,       \* the job id that predict_video returned last
    ret             \* how the last call ended

vars == <<id, dataset_id, version, model_class, job_id, type, op, pc, args,
          signed_url, headers, loc_job, output_url, response, attempts,
          polls, sleeps, http, job_before, last_job, built, ret>>

config_vars == <<id, dataset_id, version>>
self_vars == <<id, dataset_id, version, model_class, job_id, type>>
video_locals == <<signed_url, headers>>
poll_locals == <<loc_job, output_url>>
until_locals == <<response, attempts, polls, sleeps>>
predict_locals == <<built>>

\* predict has not called the request builder
NotBuilt == [err |-> NoErr, params |-> <<>>, data |-> "",
             dims |-> [width |-> <<>>, height |-> <<>>]]

NoArgs == [video |-> <<>>, fps |-> 0, models |-> <<>>, ptype |-> "",
           job |-> None, image |-> <<>>, extra |-> <<>>]

\* one recorded request
Req(method, endpoint, url, job, body, resp) ==
    [method |-> method, endpoint |-> endpoint, url |-> url, job |-> job,
     body |-> body, params |-> <<>>, data |-> "", resp |-> resp]

IsStatusRequest(r) == r.method = "GET" /\ r.endpoint = "videoinfer"
IsResultsFetch(r) == r.method = "GET" /\ r.endpoint = "output_signed_url"

NoBody == [input_url |-> <<>>, infer_fps |-> 0, models |-> <<>>]

\* lines 52-58: the state that __init__ leaves, or its IndexError
Init ==
    /\ id \in VersionIds
    /\ dataset_id = (IF Len(Split(id)) >= 2 THEN Split(id)[2] ELSE NoUrl)
    /\ version = (IF ConstructionOk(id) THEN Split(id)[3] ELSE NoUrl)
    /\ model_class \in ModelClasses
    /\ job_id = NoAttr
    /\ type = NoAttr
    /\ op = "__init__"
    /\ pc = (IF ConstructionOk(id) THEN "idle" ELSE "no_object")
    /\ args = NoArgs
    /\ signed_url = NoUrl
    /\ headers = Unbound
    /\ loc_job = Unbound
    /\ output_url = NoUrl
    /\ built = NotBuilt
    /\ response = Unbound
    /\ attempts = 0
    /\ polls = 0
    /\ sleeps = 0
    /\ http = <<>>
    /\ job_before = NoAttr
    /\ last_job = NoAttr
    /\ ret = (IF ConstructionOk(id) THEN Returned(<<>>)
              ELSE Raised(Err("IndexError", "list index out of range", "",
                              "")))

\* the call ends: by a return or by an exception that leaves the method
Finish(r) ==
    /\ pc' = "idle"
    /\ ret' = r
    /\ job_before' = job_before
    /\ last_job' = (IF op = "predict_video" /\ r.kind = "return"
                    THEN r.val[1] ELSE last_job)

\* a fresh call: the record of the previous call is dropped
Begin(o, a, p) ==
    /\ op' = o
    /\ args' = a
    /\ pc' = p
    /\ http' = <<>>
    /\ job_before' = job_id
    /\ last_job' = last_job
    /\ ret' = NoRet
    /\ signed_url' = NoUrl
    /\ headers' = Unbound
    /\ loc_job' = IF o = "poll_for_video_results" THEN a.job ELSE Unbound
    /\ output_url' = NoUrl
    /\ built' = NotBuilt
    /\ response' = Unbound
    /\ attempts' = 0
    /\ polls' = 0
    /\ sleeps' = 0
    /\ UNCHANGED self_vars

\* ------------------------------------------------------ predict_video
FpsArgs == (FpsLimit - 1)..MaxFps

PredictVideoCall ==
    /\ pc = "idle"
    /\ \E v \in VideoRefs, f \in FpsArgs, m \in ModelLists,
          p \in PredictionTypes :
        Begin("predict_video",
              [NoArgs EXCEPT !.video = v, !.fps = f, !.models = m,
                             !.ptype = p],
              "pv_validate")

FpsOkOffByOne(fps) == ~(fps > FpsLimit + 1)

\* line 171
FpsOk(fps) == ~(fps > FpsLimit)

ModelsOkFirstOnly(models) ==
    models = <<>> \/ models[1] \in DOMAIN SUPPORTED_ADDITIONAL_MODELS

\* lines 174-176
ModelsOk(models) ==
    \A i \in 1..Len(models) : models[i] \in DOMAIN SUPPORTED_ADDITIONAL_MODELS

PredictionTypeOk(ptype) == ptype \in SUPPORTED_ROBOFLOW_MODELS

FirstUnsupported(models) ==
    models[CHOOSE i \in 1..Len(models) :
              /\ models[i] \notin DOMAIN SUPPORTED_ADDITIONAL_MODELS
              /\ \A k \in 1..(i - 1) :
                    models[k] \in DOMAIN SUPPORTED_ADDITIONAL_MODELS]

ResolveType(cls) ==
    IF cls = "ObjectDetectionModel" THEN "object-detection"
    ELSE IF cls = "ClassificationModel" THEN "classification"
    ELSE IF cls = "InstanceSegmentationModel" THEN "instance-segmentation"
    ELSE NoAttr

\* the outcome of the precondition checks: NoErr when they all pass
ValidationError(fps, models, ptype, cls) ==
    IF ~FpsOk(fps)
    THEN Err("Exception", "FPS must be less than or equal to 5.", "", "")
    ELSE IF ~ModelsOk(models)
    THEN Err("Exception", "Model {model} is not supported for video inference.",
             "", FirstUnsupported(models))
    ELSE IF ~PredictionTypeOk(ptype)
    THEN Err("Exception", "{prediction_type} is not supported for video inference.",
             "", ptype)
    ELSE IF ResolveType(cls) = NoAttr
    THEN Err("Exception", "Model type not supported for video inference.",
             "", "")
    ELSE NoErr

PvValidate ==
    /\ pc = "pv_validate"
    /\ LET e == ValidationError(args.fps, args.models, args.ptype, model_class)
       IN  IF e # NoErr
           THEN /\ Finish(Raised(e))
                /\ UNCHANGED <<type, signed_url, headers>>
           ELSE /\ type' = ResolveType(model_class)
                /\ UNCHANGED <<ret, job_before, last_job>>
                /\ IF ~IsHttpPrefix(args.video)
                   THEN /\ headers' = "application/json"
                        /\ signed_url' = signed_url
                        /\ pc' = "pv_signed_url"
                   ELSE /\ signed_url' = args.video
                        /\ headers' = headers
                        /\ pc' = "pv_submit"
    /\ UNCHANGED <<model_class, job_id, op, args, http>>
    /\ UNCHANGED config_vars
    /\ UNCHANGED predict_locals
    /\ UNCHANGED poll_locals
    /\ UNCHANGED until_locals

\* the answers of the remote service to the requests of predict_video
Answer(kind, has, value) == [kind |-> kind, has |-> has, value |-> value]
TransportFailure == Answer("transport", FALSE, <<>>)
NotJson == Answer("notjson", FALSE, <<>>)
SignedUrlAnswers ==
    {TransportFailure, NotJson, Answer("json", FALSE, <<>>)}
        \cup {Answer("json", TRUE, u) : u \in SignedUrls}
PutAnswers == {TransportFailure, Answer("status", TRUE, 200),
               Answer("status", TRUE, 403)}
SubmitAnswers ==
    {TransportFailure, NotJson, Answer("json", FALSE, "")}
        \cup {Answer("json", TRUE, j) : j \in JobIds}

\* response.json()[key]: the value, or the exception that leaves the method
JsonError(a, key) ==
    IF a.kind = "notjson" THEN Err("JSONDecodeError", "", "", "")
    ELSE IF ~a.has THEN Err("KeyError", key, "", "")
    ELSE NoErr

\* lines 202-207: the request for a signed upload URL
PvRequestSignedUrl ==
    /\ pc = "pv_signed_url"
    /\ \E a \in SignedUrlAnswers :
        /\ http' = Append(http, Req("POST", "video_upload_signed_url", <<>>,
                                    "", NoBody, a))
        /\ IF a.kind = "transport"
           THEN /\ Finish(Raised(Err("Exception", "Error uploading video: {e}",
                                     Transport, "")))
                /\ UNCHANGED signed_url
           ELSE IF JsonError(a, "signed_url") # NoErr
           THEN /\ Finish(Raised(JsonError(a, "signed_url")))
                /\ UNCHANGED signed_url
           ELSE /\ signed_url' = a.value
                /\ pc' = "pv_read"
                /\ UNCHANGED <<ret, job_before, last_job>>
    /\ headers' = "application/octet-stream"
    /\ UNCHANGED <<op, args>>
    /\ UNCHANGED self_vars
    /\ UNCHANGED predict_locals
    /\ UNCHANGED poll_locals
    /\ UNCHANGED until_locals

\* lines 212-216: the file is read into memory
PvReadFile ==
    /\ pc = "pv_read"
    /\ \E readable \in BOOLEAN :
        IF readable
        THEN /\ pc' = "pv_put"
             /\ UNCHANGED <<ret, job_before, last_job>>
        ELSE Finish(Raised(Err("Exception", "Error reading video: {e}",
                               "OSError", "")))
    /\ UNCHANGED <<op, args, http>>
    /\ UNCHANGED self_vars
    /\ UNCHANGED predict_locals
    /\ UNCHANGED video_locals
    /\ UNCHANGED poll_locals
    /\ UNCHANGED until_locals

\* lines 218-221: the upload; the answer's status code is never looked at
PvPut ==
    /\ pc = "pv_put"
    /\ \E a \in PutAnswers :
        /\ http' = Append(http, Req("PUT", "signed_url", signed_url, "",
                                    NoBody, a))
        /\ IF a.kind = "transport"
           THEN Finish(Raised(Err("Exception",
                                  "There was an error uploading the video: {e}",
                                  Transport, "")))
           ELSE /\ pc' = "pv_submit"
                /\ UNCHANGED <<ret, job_before, last_job>>
    /\ UNCHANGED <<op, args>>
    /\ UNCHANGED self_vars
    /\ UNCHANGED predict_locals
    /\ UNCHANGED video_locals
    /\ UNCHANGED poll_locals
    /\ UNCHANGED until_locals

RECURSIVE AdditionalDescriptorsReversed(_)
AdditionalDescriptorsReversed(models) ==
    IF models = <<>> THEN <<>>
    ELSE AdditionalDescriptorsReversed(Tail(models))
            \o <<SUPPORTED_ADDITIONAL_MODELS[Head(models)]>>

\* lines 227-236: the ensemble list
RECURSIVE AdditionalDescriptors(_)
AdditionalDescriptors(models) ==
    IF models = <<>> THEN <<>>
    ELSE <<SUPPORTED_ADDITIONAL_MODELS[Head(models)]>>
            \o AdditionalDescriptors(Tail(models))

Ensemble(model_id, model_version, inference_type, models) ==
    <<[model_id |-> model_id, model_version |-> model_version,
       inference_type |-> inference_type]>>
        \o AdditionalDescriptors(models)

SubmitBodyWithoutUrl(url, models) ==
    [input_url |-> NoUrl, infer_fps |-> InferFps, models |-> models]

SubmitBody(url, models) ==
    [input_url |-> url, infer_fps |-> InferFps, models |-> models]

SubmitOk(a) == a.kind # "transport" /\ JsonError(a, "job_id") = NoErr

JobIdKeptIfCached(cached, a) ==
    IF SubmitOk(a) /\ cached = NoAttr THEN a.value ELSE cached

JobIdAssignedFirst(cached, a) ==
    IF a.kind = "json" /\ a.has THEN a.value ELSE NoAttr

\* lines 244-246: self.job_id is assigned once the answer held a job id
JobIdAfterSubmit(cached, a) == IF SubmitOk(a) THEN a.value ELSE cached

\* lines 225-248: the job submission
PvSubmit ==
    /\ pc = "pv_submit"
    /\ IF headers = Unbound
       THEN /\ Finish(Raised(Err("UnboundLocalError", "headers", "", "")))
            /\ UNCHANGED <<http, job_id>>
       ELSE \E a \in SubmitAnswers :
            /\ http' = Append(http,
                    Req("POST", "videoinfer", <<>>, "",
                        SubmitBody(signed_url,
                                   Ensemble(dataset_id, version, type,
                                            args.models)),
                        a))
            /\ IF a.kind = "transport"
               THEN Finish(Raised(Err(Transport, "", "", "")))
               ELSE IF JsonError(a, "job_id") # NoErr
               THEN Finish(Raised(JsonError(a, "job_id")))
               ELSE Finish(Returned(<<a.value, signed_url>>))
            /\ job_id' = JobIdAfterSubmit(job_id, a)
    /\ UNCHANGED <<model_class, type, op, args>>
    /\ UNCHANGED config_vars
    /\ UNCHANGED predict_locals
    /\ UNCHANGED video_locals
    /\ UNCHANGED poll_locals
    /\ UNCHANGED until_locals

\* ------------------------------------------------ poll_for_video_results
JobArgs == JobIds \cup {None}

PollCall ==
    /\ pc = "idle"
    /\ \E j \in JobArgs :
        Begin("poll_for_video_results", [NoArgs EXCEPT !.job = j],
              "pf_status")

\* the answers of the status endpoint: a JSON object with or without an
\* integer status and with or without an output_signed_url
StatusAnswer(kind, has_status, status, has_url, url) ==
    [kind |-> kind, has_status |-> has_status, status |-> status,
     has_url |-> has_url, url |-> url]
StatusAnswers ==
    {StatusAnswer("transport", FALSE, 0, FALSE, <<>>),
     StatusAnswer("notjson", FALSE, 0, FALSE, <<>>),
     StatusAnswer("json", FALSE, 0, FALSE, <<>>)}
        \cup {StatusAnswer("json", TRUE, st, FALSE, <<>>) : st \in 0..1}
        \cup {StatusAnswer("json", TRUE, 0, TRUE, u) : u \in {Out1, Out2}}
        \cup {StatusAnswer("json", TRUE, 1, TRUE, Out1)}
FetchAnswers ==
    {TransportFailure, NotJson} \cup {Answer("json", TRUE, b) : b \in Payloads}

NotReadyWhenZero(a) == ~a.has_status \/ a.status # 1

\* data.get("status") != 0 of line 282: an absent status is None
NotReady(a) == ~a.has_status \/ a.status # 0

\* the job id that the status URL of lines 274-276 carries
StatusUrlJob(local_job_id, self_job_id) == self_job_id

\* the single poll ends: inside the blocking poll a returned value becomes
\* its local `response', everything else ends the call
PollEnds(r) ==
    IF op = "poll_until_video_results" /\ r.kind = "return"
    THEN /\ pc' = "pu_sleep"
         /\ response' = r.val
         /\ UNCHANGED <<ret, job_before, last_job>>
    ELSE /\ Finish(r)
         /\ response' = response

\* lines 271-285: the status request
PfStatus ==
    /\ pc = "pf_status"
    /\ IF job_id = NoAttr
       THEN /\ PollEnds(Raised(Err("AttributeError", "job_id", "", "")))
            /\ UNCHANGED <<http, loc_job, output_url>>
       ELSE /\ loc_job' = IF loc_job = None THEN job_id ELSE loc_job
            /\ \E a \in StatusAnswers :
                /\ http' = Append(http,
                        Req("GET", "videoinfer", <<>>,
                            StatusUrlJob(loc_job', job_id), NoBody, a))
                /\ IF a.kind = "transport"
                   THEN /\ PollEnds(Raised(Err(Transport, "", "", "")))
                        /\ UNCHANGED output_url
                   ELSE IF a.kind = "notjson"
                   THEN /\ PollEnds(Raised(Err("JSONDecodeError", "", "", "")))
                        /\ UNCHANGED output_url
                   ELSE IF NotReady(a)
                   THEN /\ PollEnds(Returned(EmptyDict))
                        /\ UNCHANGED output_url
                   ELSE IF ~a.has_url
                   THEN /\ PollEnds(Raised(Err("KeyError", "output_signed_url",
                                               "", "")))
                        /\ UNCHANGED output_url
                   ELSE /\ output_url' = a.url
                        /\ pc' = "pf_fetch"
                        /\ UNCHANGED <<ret, response, job_before, last_job>>
    /\ UNCHANGED <<op, args, attempts, polls, sleeps>>
    /\ UNCHANGED self_vars
    /\ UNCHANGED predict_locals
    /\ UNCHANGED video_locals

FetchResultOfStatus(a) == EmptyDict

\* line 292: the body of the answer, as it is
FetchResult(a) == a.value

\* lines 287-292: the results are fetched and returned as they are
PfFetch ==
    /\ pc = "pf_fetch"
    /\ \E a \in FetchAnswers :
        /\ http' = Append(http, Req("GET", "output_signed_url", output_url,
                                    "", NoBody, a))
        /\ IF a.kind = "transport"
           THEN PollEnds(Raised(Err(Transport, "", "", "")))
           ELSE IF a.kind = "notjson"
           THEN PollEnds(Raised(Err("JSONDecodeError", "", "", "")))
           ELSE PollEnds(Returned(FetchResult(a)))
    /\ UNCHANGED <<op, args, attempts, polls, sleeps>>
    /\ UNCHANGED self_vars
    /\ UNCHANGED predict_locals
    /\ UNCHANGED video_locals
    /\ UNCHANGED poll_locals

\* ---------------------------------------------- poll_until_video_results
PollUntilCall ==
    /\ pc = "idle"
    /\ \E j \in JobArgs :
        Begin("poll_until_video_results", [NoArgs EXCEPT !.job = j],
              "pu_start")

\* lines 316-319
PuStart ==
    /\ pc = "pu_start"
    /\ IF args.job = None /\ job_id = NoAttr
       THEN Finish(Raised(Err("AttributeError", "job_id", "", "")))
       ELSE /\ pc' = "pu_poll"
            /\ UNCHANGED <<ret, job_before, last_job>>
    /\ attempts' = 0
    /\ UNCHANGED <<op, args, http, response, polls, sleeps>>
    /\ UNCHANGED self_vars
    /\ UNCHANGED predict_locals
    /\ UNCHANGED video_locals
    /\ UNCHANGED poll_locals

\* the argument that line 324 hands to the single poll
SinglePollArg(until_job_id) == None

\* lines 322-324: the single poll is called
PuPoll ==
    /\ pc = "pu_poll"
    /\ polls < MaxAttempts
    /\ polls' = polls + 1
    /\ loc_job' = SinglePollArg(args.job)
    /\ output_url' = NoUrl
    /\ pc' = "pf_status"
    /\ UNCHANGED <<op, args, http, ret, job_before, last_job, response,
                   attempts, sleeps>>
    /\ UNCHANGED self_vars
    /\ UNCHANGED predict_locals
    /\ UNCHANGED video_locals

\* lines 326-328: the sleep comes before the result is looked at
PuSleep ==
    /\ pc = "pu_sleep"
    /\ sleeps' = sleeps + 1
    /\ attempts' = attempts + 1
    /\ pc' = "pu_check"
    /\ UNCHANGED <<op, args, http, ret, job_before, last_job, response,
                   polls>>
    /\ UNCHANGED self_vars
    /\ UNCHANGED predict_locals
    /\ UNCHANGED video_locals
    /\ UNCHANGED poll_locals

PollIsDoneOrCapped(result, tries) == result # EmptyDict \/ tries >= 2

\* line 330: only a non-empty result ends the loop
PollIsDone(result, tries) == result # EmptyDict

\* lines 330-331
PuCheck ==
    /\ pc = "pu_check"
    /\ IF PollIsDone(response, attempts)
       THEN Finish(Returned(response))
       ELSE /\ pc' = "pu_poll"
            /\ UNCHANGED <<ret, job_before, last_job>>
    /\ UNCHANGED <<op, args, http, response, attempts, polls, sleeps>>
    /\ UNCHANGED self_vars
    /\ UNCHANGED predict_locals
    /\ UNCHANGED video_locals
    /\ UNCHANGED poll_locals

\* -------------------------------------------------------------- predict
HostedImage == Https \o <<"a">>
UpperImage == UpperHttp \o <<"a">>
LocalImage == <<"c", ".", "j", "p", "g">>
NotAnImage == <<"n", ".", "t", "x", "t">>
MissingFile == <<"m">>
ImageRefs == {HostedImage, UpperImage, LocalImage, NotAnImage, MissingFile,
              <<>>}

\* the file system: the files that exist, and the pixel size of those that
\* decode as images
ExistingFiles == {LocalImage, NotAnImage}
DecodableImages == {LocalImage}
ImageWidth == 200
ImageHeight == 150

UpperCase == [h |-> "H", t |-> "T", p |-> "P", s |-> "S"]
Lower(c) ==
    IF \E k \in DOMAIN UpperCase : UpperCase[k] = c
    THEN CHOOSE k \in DOMAIN UpperCase : UpperCase[k] = c
    ELSE c
LowerAll(s) == [i \in 1..Len(s) |-> Lower(s[i])]

AsciiLetters == {"a", "c", "g", "h", "j", "m", "n", "o", "p", "s", "t", "v",
                 "x", "H", "T", "P", "S"}
SchemeChars == AsciiLetters \cup {"1", "2", "4", "+", "-", "."}

\* urllib.parse.urlparse(s).scheme: the text before the first colon, in
\* lower case, when it starts with a letter and is made of scheme characters
Scheme(s) ==
    IF \E i \in 1..Len(s) : s[i] = ":"
    THEN LET i == CHOOSE k \in 1..Len(s) :
                    /\ s[k] = ":"
                    /\ \A m \in 1..(k - 1) : s[m] # ":"
         IN  IF /\ i > 1
                /\ s[1] \in AsciiLetters
                /\ \A m \in 1..(i - 1) : s[m] \in SchemeChars
             THEN LowerAll(SubSeq(s, 1, i - 1))
             ELSE <<>>
    ELSE <<>>

IsHosted(s) == Scheme(s) \in {<<"h", "t", "t", "p">>, <<"h", "t", "t", "p", "s">>}

\* roboflow.util.image_utils.validate_image_path
ValidImagePath(s) == s \in ExistingFiles \/ IsHosted(s)

\* str() of a natural number
DigitChars == <<"0", "1", "2", "3", "4", "5", "6", "7", "8", "9">>
RECURSIVE StrReversed(_)
StrReversed(n) ==
    IF n < 10 THEN <<DigitChars[n + 1]>>
    ELSE <<DigitChars[(n % 10) + 1]>> \o StrReversed(n \div 10)

RECURSIVE Str(_)
Str(n) ==
    IF n < 10 THEN <<DigitChars[n + 1]>>
    ELSE Str(n \div 10) \o <<DigitChars[(n % 10) + 1]>>

Undefined == <<"U", "n", "d", "e", "f", "i", "n", "e", "d">>
EmptyMap == [k \in {} |-> ""]

\* lines 73-93: query parameters, request body and reported dimensions
GetImageParams(image_path) ==
    IF ~ValidImagePath(image_path)
    THEN [err |-> Err("Exception", "Image does not exist at {path}", "", ""),
          params |-> EmptyMap, data |-> "",
          dims |-> [width |-> <<>>, height |-> <<>>]]
    ELSE IF IsHosted(image_path)
    THEN [err |-> NoErr,
          params |-> [image |-> image_path], data |-> "",
          dims |-> [width |-> Undefined, height |-> Undefined]]
    ELSE IF image_path \notin DecodableImages
    THEN [err |-> Err("UnidentifiedImageError", "", "", ""),
          params |-> EmptyMap, data |-> "",
          dims |-> [width |-> <<>>, height |-> <<>>]]
    ELSE [err |-> NoErr,
          params |-> EmptyMap, data |-> "multipart:imageToUpload",
          dims |-> [width |-> Str(ImageWidth), height |-> Str(ImageHeight)]]

\* dict.update: the entries of `more' replace those of `base'
Update(base, more) ==
    [k \in (DOMAIN base) \cup (DOMAIN more) |->
        IF k \in DOMAIN more THEN more[k] ELSE base[k]]

\* lines 121-125: the query parameters that are sent
QueryParams(builder_params, api_key, kwargs) ==
    Update(Update(builder_params, [api_key |-> api_key]), kwargs)

OtherImage == Http \o <<"o">>
ExtraParams == {EmptyMap, [api_key |-> "other"], [image |-> OtherImage],
                [api_key |-> "other", confidence |-> "40"]}
Labels == {None, "ObjectDetectionModel"}

\* the answers of the inference endpoint: a status code and a body
NotJsonBody == "<html>"
StatusCodes == {200, 300, 404, 500}
HttpAnswer(code, body) ==
    [kind |-> "http", has |-> body # NotJsonBody, value |-> body,
     code |-> code]
PredictAnswers ==
    {TransportFailure}
        \cup {HttpAnswer(c, b) : c \in StatusCodes,
                                 b \in {EmptyDict, "frames_a", NotJsonBody}}

IsHttpErrorClientOnly(a) == a.kind = "http" /\ a.code >= 400 /\ a.code < 500

\* Response.raise_for_status raises for the 4xx and 5xx codes
IsHttpError(a) == a.kind = "http" /\ a.code >= 400 /\ a.code < 600

\* self.api_url is assigned by the concrete model classes only
HasApiUrl(cls) == cls # "InferenceModel"

PredictCall ==
    /\ pc = "idle"
    /\ \E i \in ImageRefs, l \in Labels, e \in ExtraParams :
        Begin("predict",
              [NoArgs EXCEPT !.image = i, !.ptype = l, !.extra = e],
              "pr_build")

\* line 121: the request builder
PrBuild ==
    /\ pc = "pr_build"
    /\ built' = GetImageParams(args.image)
    /\ IF built'.err # NoErr
       THEN Finish(Raised(built'.err))
       ELSE /\ pc' = "pr_request"
            /\ UNCHANGED <<ret, job_before, last_job>>
    /\ UNCHANGED <<op, args, http>>
    /\ UNCHANGED self_vars
    /\ UNCHANGED video_locals
    /\ UNCHANGED poll_locals
    /\ UNCHANGED until_locals

\* lines 123-137
PrRequest ==
    /\ pc = "pr_request"
    /\ LET params == QueryParams(built.params, ApiKey, args.extra)
       IN  IF ~HasApiUrl(model_class)
           THEN /\ Finish(Raised(Err("AttributeError", "api_url", "", "")))
                /\ UNCHANGED http
           ELSE \E a \in PredictAnswers :
                /\ http' = Append(http,
                        [Req("POST", "infer", <<>>, "", NoBody, a)
                            EXCEPT !.params = params, !.data = built.data])
                /\ IF a.kind = "transport"
                   THEN Finish(Raised(Err(Transport, "", "", "")))
                   ELSE IF IsHttpError(a)
                   THEN Finish(Raised(Err("HTTPError", "", "", "")))
                   ELSE IF ~a.has
                   THEN Finish(Raised(Err("JSONDecodeError", "", "", "")))
                   ELSE Finish(Returned(
                            [json |-> a.value, image_path |-> args.image,
                             prediction_type |-> args.ptype,
                             image_dims |-> built.dims]))
    /\ UNCHANGED <<op, args>>
    /\ UNCHANGED self_vars
    /\ UNCHANGED predict_locals
    /\ UNCHANGED video_locals
    /\ UNCHANGED poll_locals
    /\ UNCHANGED until_locals

Next ==
    \/ PredictCall
    \/ PrBuild
    \/ PrRequest
    \/ PredictVideoCall
    \/ PvValidate
    \/ PvRequestSignedUrl
    \/ PvReadFile
    \/ PvPut
    \/ PvSubmit
    \/ PollCall
    \/ PfStatus
    \/ PfFetch
    \/ PollUntilCall
    \/ PuStart
    \/ PuPoll
    \/ PuSleep
    \/ PuCheck

Spec == Init /\ [][Next]_vars

\* the blocking poll runs on: after a single poll it sleeps, wakes up and
\* looks at the result.  The polling methods read neither the model class
\* nor the model identifier: one client configuration is explored.
LiveInit ==
    /\ Init
    /\ id = Id3
    /\ model_class = "ObjectDetectionModel"

LiveSpec ==
    LiveInit /\ [][Next]_vars /\ WF_vars(PuSleep) /\ WF_vars(PuCheck)

\* ============================================================ the claims
Done(o) == op = o /\ pc = "idle" /\ ret.kind # "none"

StatusRequests == {i \in 1..Len(http) : IsStatusRequest(http[i])}

\* C1: every status request of poll_for_video_results(j) is for job j when
\* j is given, and for the cached job id when the argument is omitted.
C1_StatusRequestIsForTheArgument ==
    op = "poll_for_video_results" =>
        \A i \in StatusRequests :
            http[i].job = (IF args.job # None THEN args.job ELSE job_id)

\* C2: a single poll whose status answer carries a non-zero status returns
\* {} without raising and without a second request; one whose status answer
\* is ready (status 0, with its output_signed_url) makes exactly one more
\* GET, to that URL, and returns the JSON body of that answer as it is.
C2_SinglePollFollowsTheStatus ==
    (Done("poll_for_video_results") /\ Len(http) >= 1
        /\ http[1].resp.kind = "json" /\ http[1].resp.has_status) =>
        /\ IsStatusRequest(http[1])
        /\ http[1].resp.status # 0 =>
            /\ ret.kind = "return"
            /\ ret.val = EmptyDict
            /\ Len(http) = 1
        /\ (http[1].resp.status = 0 /\ http[1].resp.has_url) =>
            /\ Len(http) = 2
            /\ IsResultsFetch(http[2])
            /\ http[2].url = http[1].resp.url
            /\ http[2].resp.kind = "json" =>
                /\ ret.kind = "return"
                /\ ret.val = http[2].resp.value

C2_Witness ==
    /\ Done("poll_for_video_results")
    /\ Len(http) = 2
    /\ http[1].resp.status = 0
    /\ http[2].url = Out2
    /\ ret.kind = "return"
    /\ ret.val = "frames_b"

\* C3 as stated: the status answer {"status": 0} makes the single poll
\* return {}, and the status answer {"status": 1, "output_signed_url": u}
\* makes it return the JSON body fetched from u.
C3_ZeroIsNotReady ==
    (Done("poll_for_video_results") /\ Len(http) >= 1
        /\ http[1].resp.kind = "json" /\ http[1].resp.has_status) =>
        /\ (http[1].resp.status = 0 /\ ~http[1].resp.has_url) =>
            /\ ret.kind = "return"
            /\ ret.val = EmptyDict
        /\ (http[1].resp.status = 1 /\ http[1].resp.has_url) =>
            /\ Len(http) = 2
            /\ http[2].url = http[1].resp.url
            /\ http[2].resp.kind = "json" =>
                /\ ret.kind = "return"
                /\ ret.val = http[2].resp.value

\* C3 (amended): the status answer {"status": 1} makes the single poll
\* return {}, and the status answer {"status": 0, "output_signed_url": u}
\* makes it return exactly the JSON body fetched from u.
C3_OneIsNotReady ==
    (Done("poll_for_video_results") /\ Len(http) >= 1
        /\ http[1].resp.kind = "json" /\ http[1].resp.has_status) =>
        /\ (http[1].resp.status = 1 /\ ~http[1].resp.has_url) =>
            /\ ret.kind = "return"
            /\ ret.val = EmptyDict
        /\ (http[1].resp.status = 0 /\ http[1].resp.has_url) =>
            /\ Len(http) = 2
            /\ http[2].url = http[1].resp.url
            /\ http[2].resp.kind = "json" =>
                /\ ret.kind = "return"
                /\ ret.val = http[2].resp.value

C3_Witness ==
    /\ Done("poll_for_video_results")
    /\ Len(http) = 2
    /\ http[1].resp.status = 0
    /\ http[1].resp.url = Out1
    /\ http[2].resp.kind = "json"
    /\ ret.val = "frames_a"

\* C4: when the blocking poll returns after k single polls (the first k-1
\* not ready, the k-th ready with a non-empty payload), it has made k
\* single polls, has slept k-1 times and returns the ready payload.
C4_SleepsOnlyBetweenPolls ==
    Done("poll_until_video_results") /\ ret.kind = "return" =>
        /\ polls = Cardinality(StatusRequests)
        /\ sleeps = polls - 1
        /\ ret.val # EmptyDict
        /\ ret.val = http[Len(http)].resp.value

\* C5: predict_video with an http(s) reference that passes validation
\* makes no signed-upload-URL request and no PUT, submits the job with
\* input_url equal to the reference, and returns the job id with the
\* reference as the source URL.
C5_HostedVideoIsSubmitted ==
    (Done("predict_video") /\ IsHttpPrefix(args.video)
        /\ ValidationError(args.fps, args.models, args.ptype, model_class)
            = NoErr) =>
        /\ Len(http) = 1
        /\ http[1].method = "POST"
        /\ http[1].endpoint = "videoinfer"
        /\ http[1].body.input_url = args.video
        /\ (http[1].resp.kind = "json" /\ http[1].resp.has) =>
            /\ ret.kind = "return"
            /\ ret.val = <<http[1].resp.value, args.video>>

\* the call got past the precondition checks and then failed
FailedAfterValidation ==
    /\ Done("predict_video")
    /\ ret.kind = "raise"
    /\ ValidationError(args.fps, args.models, args.ptype, model_class) = NoErr

\* C6 as stated: after a predict_video call that fails at the upload or
\* the submission stage, the client holds no cached job id.
C6_FailureLeavesNoJobId == FailedAfterValidation => job_id = NoAttr

\* C6 (amended): a predict_video call that fails at the upload or the
\* submission stage caches no job id: the cached job id is what it was
\* before the call (none, if none was cached).
C6_FailureKeepsTheJobId == FailedAfterValidation => job_id = job_before

C6_Witness ==
    /\ FailedAfterValidation
    /\ Len(http) = 3
    /\ job_before = "j1"

\* the wrapped upload error: a plain Exception that names its cause
IsWrappedUploadError(r) ==
    /\ r.kind = "raise"
    /\ r.err.type = "Exception"
    /\ r.err.cause # ""

\* C7: for a local path, a failed signed-URL request (no answer, or an
\* answer without a usable signed_url) and a failed PUT (no answer, or a
\* rejected upload) end the call with the wrapped upload error.
C7_UploadFailuresAreWrapped ==
    (Done("predict_video") /\ ~IsHttpPrefix(args.video)) =>
        /\ (Len(http) >= 1
                /\ ~(http[1].resp.kind = "json" /\ http[1].resp.has)) =>
            IsWrappedUploadError(ret)
        /\ (Len(http) >= 2
                /\ (\/ http[2].resp.kind = "transport"
                    \/ (http[2].resp.kind = "status"
                            /\ http[2].resp.value >= 400))) =>
            IsWrappedUploadError(ret)

\* C8: a predict_video call with fps > 5 fails with the FPS error, and no
\* HTTP request has been issued, whatever the other arguments are.
C8_HighFpsFailsBeforeAnyRequest ==
    (op = "predict_video" /\ args.fps > 5) =>
        /\ http = <<>>
        /\ \/ pc = "pv_validate"
           \/ /\ pc = "idle"
              /\ ret.kind = "raise"
              /\ ret.err.msg = "FPS must be less than or equal to 5."

C8_Witness ==
    /\ Done("predict_video")
    /\ args.fps = 6
    /\ args.video = HostedVideo
    /\ args.models = <<"clip">>
    /\ args.ptype = "batch-video"
    /\ ret.kind = "raise"

\* C9: a predict_video call with an additional model outside {clip, gaze}
\* or a prediction type other than "batch-video" fails, and no HTTP request
\* has been issued.
C9_UnsupportedFailsBeforeAnyRequest ==
    (op = "predict_video"
        /\ (\/ \E i \in 1..Len(args.models) :
                    args.models[i] \notin {"clip", "gaze"}
            \/ args.ptype # "batch-video")) =>
        /\ http = <<>>
        /\ \/ pc = "pv_validate"
           \/ pc = "idle" /\ ret.kind = "raise"

C9_Witness ==
    /\ Done("predict_video")
    /\ args.fps = 5
    /\ args.models = <<"clip", "unknown">>
    /\ args.ptype = "batch-video"
    /\ model_class = "ObjectDetectionModel"
    /\ ret.kind = "raise"
    /\ ret.err.about = "unknown"

\* C10: the request of predict carries every extra parameter with the
\* caller's value, except that api_key always is the client's credential.
C10_ApiKeyIsNotOverridable ==
    (op = "predict" /\ Len(http) >= 1) =>
        /\ http[1].params.api_key = ApiKey
        /\ \A k \in (DOMAIN args.extra) \ {"api_key"} :
                http[1].params[k] = args.extra[k]

\* C11: the cached job id always is the job id that the most recent
\* successful predict_video call returned: a successful call caches the job
\* id it returns, and a second successful call overwrites the first.
C11_CachedIsTheLastReturned ==
    /\ job_id = last_job
    /\ (Done("predict_video") /\ ret.kind = "return") => job_id = ret.val[1]

C11_Witness ==
    /\ Done("predict_video")
    /\ ret.kind = "return"
    /\ job_before = "j1"
    /\ job_id = "j2"

\* C12: the blocking poll returns only what a single poll yielded as a
\* non-empty result, after single polls that all yielded {} (so it never
\* returns while no poll is non-empty, however many polls were made), and
\* once a single poll has yielded a non-empty result the call eventually
\* returns that result.
C12_ReturnsIffSomePollIsNonEmpty ==
    /\ [](Done("poll_until_video_results") /\ ret.kind = "return" =>
            /\ ret.val # EmptyDict
            /\ IsResultsFetch(http[Len(http)])
            /\ ret.val = http[Len(http)].resp.value
            /\ \A i \in 1..(Len(http) - 1) :
                    (IsResultsFetch(http[i]) /\ http[i].resp.kind = "json")
                        => http[i].resp.value = EmptyDict)
    /\ \A p \in Payloads \ {EmptyDict} :
        (op = "poll_until_video_results" /\ pc = "pu_sleep" /\ response = p)
            ~> (Done("poll_until_video_results") /\ ret.kind = "return"
                    /\ ret.val = p)

C12_Witness ==
    /\ Done("poll_until_video_results")
    /\ ret.kind = "return"
    /\ ret.val = "frames_b"
    /\ polls = 3

\* C13: construction succeeds exactly when the model identifier splits on
\* "/" into exactly three segments.
C13_ExactlyThreeSegments ==
    op = "__init__" => (ret.kind = "return" <=> Len(Split(id)) = 3)

IsFailedAnswer(a, codes) ==
    \/ a.kind = "transport"
    \/ a.kind = "http" /\ a.code \in codes

\* C14 as stated: a predict call makes at most one request, a POST, and a
\* transport failure or an answer outside 200..299 ends it with an error.
C14_Non2xxIsAnError ==
    op = "predict" =>
        /\ Len(http) <= 1
        /\ \A i \in 1..Len(http) : http[i].method = "POST"
        /\ (pc = "idle" /\ Len(http) = 1
                /\ IsFailedAnswer(http[1].resp, (100..599) \ (200..299)))
            => ret.kind = "raise"

\* C14 (amended): a predict call makes at most one request, a POST, and a
\* transport failure or an answer with a 4xx or 5xx status ends it with an
\* error and without a result.
C14_ErrorStatusIsAnError ==
    op = "predict" =>
        /\ Len(http) <= 1
        /\ \A i \in 1..Len(http) : http[i].method = "POST"
        /\ (pc = "idle" /\ Len(http) = 1
                /\ IsFailedAnswer(http[1].resp, 400..599))
            => ret.kind = "raise"

C14_Witness ==
    /\ Done("predict")
    /\ Len(http) = 1
    /\ http[1].resp.kind = "http"
    /\ http[1].resp.code = 500
    /\ http[1].resp.value = "frames_a"
    /\ ret.kind = "raise"

\* C15: once predict has called the request builder, an http(s) reference
\* gave the URL under "image", no body and the placeholder for both
\* dimensions; a local image gave no query parameter, a multipart body and
\* the decoded width and height as decimal strings.
C15_BuilderFollowsTheClassification ==
    (op = "predict" /\ pc # "pr_build") =>
        /\ (\/ args.image = HostedImage
            \/ args.image = UpperImage /\ built.err = NoErr) =>
            /\ built.err = NoErr
            /\ DOMAIN built.params = {"image"}
            /\ built.params.image = args.image
            /\ built.data = ""
            /\ built.dims.width = Undefined
            /\ built.dims.height = Undefined
        /\ args.image = LocalImage =>
            /\ built.err = NoErr
            /\ DOMAIN built.params = {}
            /\ built.data # ""
            /\ built.dims.width = <<"2", "0", "0">>
            /\ built.dims.height = <<"1", "5", "0">>

C15_Witness ==
    /\ op = "predict"
    /\ pc = "pr_request"
    /\ args.image = LocalImage
    /\ built.dims.height = <<"1", "5", "0">>

StaticDescriptor(name) ==
    IF name = "clip"
    THEN [model_id |-> "clip", model_version |-> "1",
          inference_type |-> "clip-embed-image"]
    ELSE [model_id |-> "gaze", model_version |-> "1",
          inference_type |-> "gaze-detection"]

TypeOfClass ==
    CASE model_class = "ObjectDetectionModel" -> "object-detection"
      [] model_class = "ClassificationModel" -> "classification"
      [] model_class = "InstanceSegmentationModel" -> "instance-segmentation"
      [] OTHER -> ""

\* C17: the ensemble of every job submission has one entry more than the
\* additional models asked for: first the descriptor of the client's
\* dataset_id, version and inference type, then the static descriptors of
\* the additional models in the order asked for.
C17_EnsembleIsPrimaryThenAdditional ==
    op = "predict_video" =>
        \A i \in 1..Len(http) :
            http[i].endpoint = "videoinfer" =>
                /\ Len(http[i].body.models) = 1 + Len(args.models)
                /\ http[i].body.models[1] =
                        [model_id |-> dataset_id,
                         model_version |-> version,
                         inference_type |-> TypeOfClass]
                /\ \A k \in 1..Len(args.models) :
                        http[i].body.models[k + 1] =
                            StaticDescriptor(args.models[k])

C17_Witness ==
    /\ Done("predict_video")
    /\ ret.kind = "return"
    /\ id = Id4
    /\ args.models = <<"gaze", "clip">>
    /\ Len(http[3].body.models) = 3

\* C18: every status request of the blocking poll called with an explicit
\* job id is for that job id.
C18_BlockingPollAsksForTheArgument ==
    (op = "poll_until_video_results" /\ args.job # None) =>
        \A i \in StatusRequests : http[i].job = args.job

\* C19: the cached job id is what it was when the call began, unless the
\* call is a predict_video call that has returned.
C19_OnlySuccessChangesTheJobId ==
    ~(op = "predict_video" /\ ret.kind = "return") => job_id = job_before

C19_Witness ==
    /\ Done("poll_until_video_results")
    /\ ret.kind = "return"
    /\ args.job = "j2"
    /\ job_id = "j1"

====
